---- MODULE Spec2Model ----
(***************************************************************************)
(* Model of src/main.py: the energy-usage pipeline                         *)
(*   load_energy_data -> analyze_usage_patterns -> generate_insights       *)
(* driven by main, together with direct calls of the three functions.      *)
(*                                                                         *)
(* Python values are records with a "type" field.  A DataFrame carries its *)
(* column dtypes, its index labels and its rows (one record per row, one   *)
(* field per column).  Timestamps are minutes since 2024-01-01T00:00.      *)
(* Arithmetic is exact (rationals), where pandas uses float64.             *)
(***************************************************************************)
EXTENDS Integers, Sequences, FiniteSets, TLC

VARIABLES pc, file, data, report, insights, out, calls, exc

vars == <<pc, file, data, report, insights, out, calls, exc>>

(***************************************************************************)
(* Bounds                                                                  *)
(***************************************************************************)
MaxRows == 3        \* rows of a file read by main
StatRows == 6       \* rows of a table in the statistics specification
ApiRows == 2        \* rows of a table handed to a direct call
MaxCalls == 2       \* direct calls in one behaviour

Timestamps == {480, 780, 1200, 1950}   \* 08:00, 13:00, 20:00, next day 08:30
UsageValues == {5, 50}
\* the rows of the tables in the statistics specification: three hours, two
\* timestamps in the same hour, three usage values
StatRowValues == {[timestamp |-> 480, usage |-> 5], [timestamp |-> 780, usage |-> 5],
                  [timestamp |-> 1200, usage |-> 50], [timestamp |-> 1950, usage |-> 20]}

(***************************************************************************)
(* Python values                                                           *)
(***************************************************************************)
None == [type |-> "NoneType"]

PyList(s) == [type |-> "list", elems |-> s]

PyInt(n) == [type |-> "int", val |-> n]

PyDict(items) == [type |-> "dict", items |-> items]

DataFrame(dtypes, index, rows) ==
    [type |-> "DataFrame", dtypes |-> dtypes, index |-> index, rows |-> rows]

Series(index, values) == [type |-> "Series", index |-> index, values |-> values]

Columns(df) == DOMAIN df.dtypes

\* DataFrame.empty
Empty(df) == Len(df.rows) = 0 \/ Columns(df) = {}

\* a faulty variant: main does not test the report before generating insights
Truthy_Always(v) == TRUE

\* bool(v), as `if report:` evaluates it
Truthy(v) ==
    CASE v.type = "NoneType" -> FALSE
      [] v.type = "dict" -> DOMAIN v.items # {}
      [] v.type = "list" -> Len(v.elems) > 0
      [] v.type = "int" -> v.val # 0
      [] OTHER -> TRUE

\* A Python string is a sequence of fragments: literal text, or the text a
\* list of integers is rendered as.  Concatenation is \o.
Lit(s) == [kind |-> "str", str |-> s, list |-> <<>>]

Repr(elems) == [kind |-> "list", str |-> "", list |-> elems]

\* str(v), as an f-string renders {v}
Str(v) ==
    CASE v.type = "list" -> <<Repr(v.elems)>>
      [] v.type = "NoneType" -> <<Lit("None")>>
      [] OTHER -> <<Lit(v.type)>>

(***************************************************************************)
(* Exact arithmetic                                                        *)
(***************************************************************************)
\* the greatest common divisor of a >= 0 and b > 0
GCD(a, b) == CHOOSE g \in 1..b : /\ a % g = 0
                                 /\ b % g = 0
                                 /\ \A h \in (g + 1)..b : a % h # 0 \/ b % h # 0

\* the rational n/d (n >= 0, d > 0) in lowest terms
Rat(n, d) == [num |-> n \div GCD(n, d), den |-> d \div GCD(n, d)]

\* s[1] + ... + s[i]
RECURSIVE SumTo(_, _)
SumTo(s, i) == IF i = 0 THEN 0 ELSE SumTo(s, i - 1) + s[i]

SumSeq(s) == SumTo(s, Len(s))

\* s[1] * ... * s[i]
RECURSIVE ProdTo(_, _)
ProdTo(s, i) == IF i = 0 THEN 1 ELSE ProdTo(s, i - 1) * s[i]

ProdSeq(s) == ProdTo(s, Len(s))

\* Series.mean() of a sequence of integers
Mean(s) == Rat(SumSeq(s), Len(s))

\* a faulty variant: >= in place of >, and the deviation of a single value taken as 0
ExceedsMeanPlusStd_NonStrict(x, xs, k) ==
    \E n \in {Len(xs)} :
    \E D \in {ProdSeq([i \in 1..n |-> xs[i].den]) * x.den} :
    \E S \in {SumSeq([i \in 1..n |-> xs[i].num * (D \div xs[i].den)])} :
    \E Q \in {SumSeq([i \in 1..n |-> (xs[i].num * (D \div xs[i].den)) * (xs[i].num * (D \div xs[i].den))])} :
    \E d \in {n * (x.num * (D \div x.den)) - S} :
        /\ n >= 1
        /\ d >= 0
        /\ d * d * (n - 1) >= k * k * n * (n * Q - S * S)

\* The mask  s > s.mean() + k * s.std()  at the value x, for a sequence xs of
\* rationals: std is the sample standard deviation (ddof = 1), which is NaN
\* for fewer than two values, and a comparison with NaN is False.  With the
\* values scaled to integers v (common denominator D), S their sum, Q the sum
\* of their squares and d = n*x - S:
\*   x > S/n + k*sqrt((Q - S^2/n)/(n-1))  <=>  d > 0 /\ d^2 (n-1) > k^2 n (nQ - S^2)
ExceedsMeanPlusStd(x, xs, k) ==
    \E n \in {Len(xs)} :
    \E D \in {ProdSeq([i \in 1..n |-> xs[i].den]) * x.den} :
    \E S \in {SumSeq([i \in 1..n |-> xs[i].num * (D \div xs[i].den)])} :
    \E Q \in {SumSeq([i \in 1..n |-> (xs[i].num * (D \div xs[i].den)) * (xs[i].num * (D \div xs[i].den))])} :
    \E d \in {n * (x.num * (D \div x.den)) - S} :
        /\ n >= 2
        /\ d > 0
        /\ d * d * (n - 1) > k * k * n * (n * Q - S * S)

\* the elements of a set of integers in ascending order
SortedSeq(S) ==
    [i \in 1..Cardinality(S) |-> CHOOSE x \in S : Cardinality({y \in S : y < x}) = i - 1]

\* the subsequence of s at the positions satisfying keep
RECURSIVE Filter(_, _, _)
Filter(s, keep, i) ==
    IF i > Len(s) THEN <<>>
    ELSE (IF keep[i] THEN <<s[i]>> ELSE <<>>) \o Filter(s, keep, i + 1)

\* F applied to the value of v, which is computed once
Eval(F(_), v) == CHOOSE r \in {F(x) : x \in {v}} : TRUE

(***************************************************************************)
(* load_energy_data                                                        *)
(***************************************************************************)
file_path == "energy_usage_data.csv"

\* the outcome of a try body: the exception it raised ("none" if it
\* returned), str(e), the value returned, and the argument object afterwards
Returned(v, arg) == [exc |-> "none", msg |-> "", ret |-> v, arg |-> arg]

Raised(e, msg, arg) == [exc |-> e, msg |-> msg, ret |-> None, arg |-> arg]

\* the outcome of a call: the value returned, the lines printed, the exception
\* that left the function ("none" if it returned), the argument afterwards
Outcome(ret, printed, raised, arg) ==
    [ret |-> ret, printed |-> printed, raised |-> raised, arg |-> arg]

\* parse_dates=['timestamp']: a column of date text becomes datetime64, a
\* column holding text that is no date is left as it is
ParseDates(df) ==
    DataFrame([c \in Columns(df) |->
                  IF c = "timestamp" /\ df.dtypes[c] = "datetext"
                  THEN "datetime64" ELSE df.dtypes[c]],
              df.index, df.rows)

\* pd.read_csv(file_path, parse_dates=['timestamp'])
read_csv(f) ==
    CASE f.kind = "missing" ->
            Raised("FileNotFoundError", "No such file or directory", f)
      [] f.kind = "malformed" ->
            Raised("ParserError", "Error tokenizing data", f)
      [] f.kind = "unreadable" ->
            Raised("UnicodeDecodeError", "invalid start byte", f)
      [] OTHER ->
            IF "timestamp" \notin Columns(f.content)
            THEN Raised("ValueError", "Missing column provided to 'parse_dates': 'timestamp'", f)
            ELSE Returned(ParseDates(f.content), f)

\* a faulty variant: no handler for exceptions other than the two named ones
load_energy_data_NoCatchAll(f) ==
    LET b == read_csv(f)
    IN  CASE b.exc = "none" ->
                Outcome(b.ret, <<>>, "none", f)
          [] b.exc = "FileNotFoundError" ->
                Outcome(None, <<(<<Lit("Error: File not found at ")>> \o <<Lit(f.path)>>)>>, "none", f)
          [] b.exc = "ParserError" ->
                Outcome(None,
                        <<(<<Lit("Error: Failed to parse CSV. Please check the file format.")>>)>>,
                        "none", f)
          [] OTHER ->
                Outcome(None, <<>>, b.exc, f)

load_energy_data(f) ==
    LET b == read_csv(f)
    IN  CASE b.exc = "none" ->
                Outcome(b.ret, <<>>, "none", f)
          [] b.exc = "FileNotFoundError" ->
                Outcome(None, <<(<<Lit("Error: File not found at ")>> \o <<Lit(f.path)>>)>>, "none", f)
          [] b.exc = "ParserError" ->
                Outcome(None,
                        <<(<<Lit("Error: Failed to parse CSV. Please check the file format.")>>)>>,
                        "none", f)
          [] OTHER ->
                Outcome(None, <<(<<Lit("Unexpected error: ")>> \o <<Lit(b.msg)>>)>>, "none", f)

(***************************************************************************)
(* analyze_usage_patterns                                                  *)
(***************************************************************************)
\* a faulty variant: the hours since the first midnight, not the hour of the day
HourOf_NoWrap(ts) == ts \div 60

\* Series.dt.hour of a timestamp
HourOf(ts) == (ts \div 60) % 24

\* a faulty variant: the timestamps are truncated to the hour in place
WithHour_Floor(df) ==
    DataFrame([c \in Columns(df) \cup {"hour"} |->
                  IF c = "hour" THEN "int32" ELSE df.dtypes[c]],
              df.index,
              [i \in 1..Len(df.rows) |->
                  [c \in Columns(df) \cup {"hour"} |->
                      IF c = "hour" THEN (df.rows[i].timestamp \div 60) % 24
                      ELSE IF c = "timestamp" THEN 60 * (df.rows[i].timestamp \div 60)
                      ELSE df.rows[i][c]]])

\* data['hour'] = data['timestamp'].dt.hour
WithHour(df) ==
    DataFrame([c \in Columns(df) \cup {"hour"} |->
                  IF c = "hour" THEN "int32" ELSE df.dtypes[c]],
              df.index,
              [i \in 1..Len(df.rows) |->
                  [c \in Columns(df) \cup {"hour"} |->
                      IF c = "hour" THEN HourOf(df.rows[i].timestamp)
                      ELSE df.rows[i][c]]])

\* a faulty variant: the sum of each hour in place of its mean
GroupMean_Sum(df) ==
    LET hours == SortedSeq({df.rows[i].hour : i \in 1..Len(df.rows)})
        usageOf(h) ==
            LET keep == [i \in 1..Len(df.rows) |-> df.rows[i].hour = h]
                rs == Filter(df.rows, keep, 1)
            IN  [i \in 1..Len(rs) |-> rs[i].usage]
    IN  Series(hours, [j \in 1..Len(hours) |-> Rat(SumSeq(usageOf(hours[j])), 1)])

\* data.groupby('hour')['usage'].mean(): one entry per hour present, in
\* ascending order of the hour
GroupMean(df) ==
    LET hours == SortedSeq({df.rows[i].hour : i \in 1..Len(df.rows)})
        usageOf(h) ==
            LET keep == [i \in 1..Len(df.rows) |-> df.rows[i].hour = h]
                rs == Filter(df.rows, keep, 1)
            IN  [i \in 1..Len(rs) |-> rs[i].usage]
    IN  Series(hours, [j \in 1..Len(hours) |-> Mean(usageOf(hours[j]))])

\* hourly_usage[hourly_usage > hourly_usage.mean() + hourly_usage.std()]
HighUsage(s) ==
    LET keep == [j \in 1..Len(s.index) |-> ExceedsMeanPlusStd(s.values[j], s.values, 1)]
    IN  Series(Filter(s.index, keep, 1), Filter(s.values, keep, 1))

\* a faulty variant: one standard deviation in place of two
Anomalies_OneStd(df) ==
    LET usage == [i \in 1..Len(df.rows) |-> Rat(df.rows[i].usage, 1)]
        keep == [i \in 1..Len(df.rows) |-> ExceedsMeanPlusStd(usage[i], usage, 1)]
    IN  DataFrame(df.dtypes, Filter(df.index, keep, 1), Filter(df.rows, keep, 1))

\* data[data['usage'] > data['usage'].mean() + 2*data['usage'].std()]
Anomalies(df) ==
    LET usage == [i \in 1..Len(df.rows) |-> Rat(df.rows[i].usage, 1)]
        keep == [i \in 1..Len(df.rows) |-> ExceedsMeanPlusStd(usage[i], usage, 2)]
    IN  DataFrame(df.dtypes, Filter(df.index, keep, 1), Filter(df.rows, keep, 1))

\* the try body, lines 34-45
analyze_body(d) ==
    IF d.type # "DataFrame"
    THEN Raised("TypeError", "object is not subscriptable", d)
    ELSE IF "timestamp" \notin Columns(d)
    THEN Raised("KeyError", "'timestamp'", d)
    ELSE IF d.dtypes.timestamp # "datetime64"
    THEN Raised("AttributeError", "Can only use .dt accessor with datetimelike values", d)
    ELSE Eval(LAMBDA d1 :
           IF "usage" \notin Columns(d1)
           THEN Raised("KeyError", "'Column not found: usage'", d1)
           ELSE IF d1.dtypes.usage = "object"
           THEN Raised("TypeError", "agg function failed [how->mean,dtype->object]", d1)
           ELSE Eval(LAMBDA hourly_usage :
                  LET high_usage_hours == HighUsage(hourly_usage)
                      anomalies == Anomalies(d1)
                  IN  Returned(PyDict([average_hourly_usage |-> hourly_usage,
                                       high_usage_hours |-> PyList(high_usage_hours.index),
                                       anomalies |-> anomalies]),
                               d1),
                  GroupMean(d1)),
           WithHour(d))

\* a faulty variant: no handler for KeyError, every failure gets the generic message
analyze_usage_patterns_NoKeyError(d) ==
    Eval(LAMBDA b :
           IF b.exc = "none"
           THEN Outcome(b.ret, <<>>, "none", b.arg)
           ELSE Outcome(None,
                        <<(<<Lit("Unexpected error during analysis: ")>> \o <<Lit(b.msg)>>)>>,
                        "none", b.arg),
         analyze_body(d))

analyze_usage_patterns(d) ==
    Eval(LAMBDA b :
           CASE b.exc = "none" ->
                   Outcome(b.ret, <<>>, "none", b.arg)
             [] b.exc = "KeyError" ->
                   Outcome(None,
                           <<(<<Lit("Error: Missing expected data column - ")>> \o <<Lit(b.msg)>>)>>,
                           "none", b.arg)
             [] OTHER ->
                   Outcome(None,
                           <<(<<Lit("Unexpected error during analysis: ")>> \o <<Lit(b.msg)>>)>>,
                           "none", b.arg),
         analyze_body(d))

(***************************************************************************)
(* generate_insights                                                       *)
(***************************************************************************)
HighUsageText == "Consider adjusting activities or appliances usage during these high usage hours: "

AnomalyText == "There are anomalies in energy usage that might need investigation, such as potential faulty appliances."

\* 'high_usage_hours' in report
Contains(r, key) ==
    CASE r.type = "dict" -> Returned(key \in DOMAIN r.items, r)
      [] r.type = "DataFrame" -> Returned(key \in Columns(r), r)
      [] r.type = "list" -> Returned(FALSE, r)
      [] OTHER -> Raised("TypeError", "argument is not iterable", r)

\* report[key]
GetItem(r, key) ==
    CASE r.type = "dict" ->
            IF key \in DOMAIN r.items THEN Returned(r.items[key], r)
            ELSE Raised("KeyError", "'anomalies'", r)
      [] r.type = "list" ->
            Raised("TypeError", "list indices must be integers or slices, not str", r)
      [] r.type = "DataFrame" ->
            Raised("KeyError", "'anomalies'", r)
      [] OTHER -> Raised("TypeError", "object is not subscriptable", r)

\* v.empty
GetEmpty(v, r) ==
    IF v.type = "DataFrame" THEN Returned(Empty(v), r)
    ELSE Raised("AttributeError", "object has no attribute 'empty'", r)

\* a faulty variant: the recommendation is appended only for a non-empty list of hours
generate_body_NonEmpty(r) ==
    LET has == Contains(r, "high_usage_hours")
    IN  IF has.exc # "none" THEN has
        ELSE LET insights1 ==
                     IF has.ret /\ Truthy(r.items.high_usage_hours)
                     THEN <<(<<Lit(HighUsageText)>> \o Str(r.items.high_usage_hours))>>
                     ELSE <<>>
                 a == GetItem(r, "anomalies")
             IN  IF a.exc # "none" THEN a
                 ELSE LET e == GetEmpty(a.ret, r)
                      IN  IF e.exc # "none" THEN e
                          ELSE Returned(PyList(IF ~e.ret
                                               THEN Append(insights1, <<Lit(AnomalyText)>>)
                                               ELSE insights1),
                                        r)

\* the try body, lines 60-68; the DataFrames handed in have no column named
\* high_usage_hours or anomalies
generate_body(r) ==
    LET has == Contains(r, "high_usage_hours")
    IN  IF has.exc # "none" THEN has
        ELSE LET insights1 ==
                     IF has.ret
                     THEN <<(<<Lit(HighUsageText)>> \o Str(r.items.high_usage_hours))>>
                     ELSE <<>>
                 a == GetItem(r, "anomalies")
             IN  IF a.exc # "none" THEN a
                 ELSE LET e == GetEmpty(a.ret, r)
                      IN  IF e.exc # "none" THEN e
                          ELSE Returned(PyList(IF ~e.ret
                                               THEN Append(insights1, <<Lit(AnomalyText)>>)
                                               ELSE insights1),
                                        r)

\* a faulty variant: the handler returns the insights appended before the failure
generate_insights_Partial(r) ==
    LET b == generate_body(r)
        has == Contains(r, "high_usage_hours")
    IN  IF b.exc = "none"
        THEN Outcome(b.ret, <<>>, "none", b.arg)
        ELSE Outcome(PyList(IF has.exc = "none" /\ has.ret
                            THEN <<(<<Lit(HighUsageText)>> \o Str(r.items.high_usage_hours))>>
                            ELSE <<>>),
                     <<(<<Lit("Error in generating insights: ")>> \o <<Lit(b.msg)>>)>>,
                     "none", b.arg)

generate_insights(r) ==
    LET b == generate_body(r)
    IN  IF b.exc = "none"
        THEN Outcome(b.ret, <<>>, "none", b.arg)
        ELSE Outcome(PyList(<<>>),
                     <<(<<Lit("Error in generating insights: ")>> \o <<Lit(b.msg)>>)>>,
                     "none", b.arg)

(***************************************************************************)
(* Inputs                                                                  *)
(***************************************************************************)
\* the sequences of at most n elements of S
RECURSIVE SeqsUpTo(_, _)
SeqsUpTo(S, n) ==
    IF n = 0 THEN {<<>>}
    ELSE LET shorter == SeqsUpTo(S, n - 1)
         IN  shorter \cup {Append(q, x) : q \in {r \in shorter : Len(r) = n - 1}, x \in S}

\* RangeIndex(n): the labels 0 .. n-1
RangeIndex(n) == [i \in 1..n |-> i - 1]

\* a table with the columns timestamp and usage, of the given dtypes
Table(tsdtype, usagedtype, rows) ==
    DataFrame([timestamp |-> tsdtype, usage |-> usagedtype], RangeIndex(Len(rows)), rows)

\* the table without the column c
Drop(df, c) ==
    DataFrame([k \in Columns(df) \ {c} |-> df.dtypes[k]],
              df.index,
              [i \in 1..Len(df.rows) |-> [k \in Columns(df) \ {c} |-> df.rows[i][k]]])

RowSeqs(ts, us, n) == SeqsUpTo([timestamp : ts, usage : us], n)

\* what a CSV file can hold: date text or other text in the timestamp column,
\* numbers or text in the usage column, either column possibly missing
CsvTables(ts, us, n) ==
    LET full == {Table(t, u, rows) : t \in {"datetext", "object"},
                                     u \in {"int64", "object"},
                                     rows \in RowSeqs(ts, us, n)}
    IN  full \cup {Drop(df, "usage") : df \in full}
             \cup {Drop(df, "timestamp") : df \in full}

CsvFile(df) == [path |-> file_path, kind |-> "csv", content |-> df]

NoFile(kind) == [path |-> file_path, kind |-> kind, content |-> None]

BadFiles == {NoFile("missing"), NoFile("malformed"), NoFile("unreadable")}

Files == BadFiles \cup {CsvFile(df) : df \in CsvTables(Timestamps, UsageValues, MaxRows)}

(***************************************************************************)
(* main                                                                    *)
(***************************************************************************)
Header == <<Lit("\nActionable Insights:")>>

Init ==
    /\ pc = "start"
    /\ file \in Files
    /\ data = None
    /\ report = None
    /\ insights = None
    /\ out = <<>>
    /\ calls = <<>>
    /\ exc = "none"

\* line 79: data = load_energy_data(file_path)
MainLoad ==
    /\ pc = "start"
    /\ \E o \in {load_energy_data(file)} :
           /\ data' = o.ret
           /\ out' = out \o o.printed
           /\ exc' = o.raised
           /\ pc' = IF o.raised = "none" THEN "loaded" ELSE "crashed"
    /\ calls' = Append(calls, "load")
    /\ UNCHANGED <<file, report, insights>>

\* lines 81-83: report = analyze_usage_patterns(data)
MainAnalyze ==
    /\ pc = "loaded"
    /\ data # None
    /\ \E o \in {analyze_usage_patterns(data)} :
           /\ report' = o.ret
           /\ data' = o.arg
           /\ out' = out \o o.printed
           /\ exc' = o.raised
           /\ pc' = IF o.raised = "none" THEN "analyzed" ELSE "crashed"
    /\ calls' = Append(calls, "analyze")
    /\ UNCHANGED <<file, insights>>

\* line 81, data is None: main returns
MainNoData ==
    /\ pc = "loaded"
    /\ data = None
    /\ pc' = "done"
    /\ UNCHANGED <<file, data, report, insights, out, calls, exc>>

\* lines 85-87: insights = generate_insights(report)
MainGenerate ==
    /\ pc = "analyzed"
    /\ Truthy(report)
    /\ \E o \in {generate_insights(report)} :
           /\ insights' = o.ret
           /\ report' = o.arg
           /\ out' = out \o o.printed
           /\ exc' = o.raised
           /\ pc' = IF o.raised = "none" THEN "generated" ELSE "crashed"
    /\ calls' = Append(calls, "generate")
    /\ UNCHANGED <<file, data>>

\* line 85, report is falsy: main returns
MainNoReport ==
    /\ pc = "analyzed"
    /\ ~Truthy(report)
    /\ pc' = "done"
    /\ UNCHANGED <<file, data, report, insights, out, calls, exc>>

\* lines 88-90: the header, then "- " + insight for each insight
MainPrint ==
    /\ pc = "generated"
    /\ out' = out \o <<Header>>
                  \o [i \in 1..Len(insights.elems) |-> <<Lit("- ")>> \o insights.elems[i]]
    /\ pc' = "done"
    /\ calls' = Append(calls, "print")
    /\ UNCHANGED <<file, data, report, insights, exc>>

Next ==
    \/ MainLoad
    \/ MainAnalyze
    \/ MainNoData
    \/ MainGenerate
    \/ MainNoReport
    \/ MainPrint

Spec == Init /\ [][Next]_vars

\* main is sequential code: a step that can be taken is taken
FairSpec == Spec /\ WF_vars(Next)

(***************************************************************************)
(* Direct calls of the three functions, in any order, on the caller's      *)
(* current file, table and report                                          *)
(***************************************************************************)
\* tables as read_csv returns them, and tables lacking the timestamp column
LoadedTables(ts, us, n) == {ParseDates(df) : df \in CsvTables(ts, us, n)}

ApiTables == LoadedTables(Timestamps, UsageValues, ApiRows) \cup {None}

OneRow == Table("datetime64", "int64", <<[timestamp |-> 1200, usage |-> 50]>>)

NoRow == Table("datetime64", "int64", <<>>)

\* reports that analyze_usage_patterns did not build: no dictionary, keys
\* missing, values of another type
ApiReports ==
    { None, PyInt(0), PyList(<<>>), OneRow,
      PyDict([high_usage_hours |-> PyList(<<20>>)]),
      PyDict([anomalies |-> OneRow]),
      PyDict([anomalies |-> NoRow]),
      PyDict([high_usage_hours |-> PyList(<<>>), anomalies |-> NoRow]),
      PyDict([high_usage_hours |-> PyList(<<>>), anomalies |-> OneRow]),
      PyDict([high_usage_hours |-> PyList(<<8, 20>>), anomalies |-> NoRow]),
      PyDict([high_usage_hours |-> PyList(<<20>>), anomalies |-> OneRow]),
      PyDict([high_usage_hours |-> PyList(<<20>>), anomalies |-> PyList(<<>>)]),
      PyDict([high_usage_hours |-> None, anomalies |-> OneRow]) }

ApiFiles == BadFiles \cup {CsvFile(Table("datetext", "int64", <<[timestamp |-> 480, usage |-> 5]>>)),
                           CsvFile(Drop(Table("datetext", "int64", <<>>), "timestamp"))}

ApiInit ==
    /\ pc = "api"
    /\ file \in ApiFiles
    /\ \/ data \in ApiTables /\ report = None
       \/ data = None /\ report \in ApiReports
    /\ insights = None
    /\ out = <<>>
    /\ calls = <<>>
    /\ exc = "none"

\* data = load_energy_data(file)
ApiLoad ==
    /\ pc = "api"
    /\ Len(calls) < MaxCalls
    /\ \E o \in {load_energy_data(file)} :
           /\ data' = o.ret
           /\ out' = out \o o.printed
           /\ exc' = o.raised
    /\ calls' = Append(calls, "load")
    /\ UNCHANGED <<pc, file, report, insights>>

\* report = analyze_usage_patterns(data)
ApiAnalyze ==
    /\ pc = "api"
    /\ Len(calls) < MaxCalls
    /\ \E o \in {analyze_usage_patterns(data)} :
           /\ report' = o.ret
           /\ data' = o.arg
           /\ out' = out \o o.printed
           /\ exc' = o.raised
    /\ calls' = Append(calls, "analyze")
    /\ UNCHANGED <<pc, file, insights>>

\* insights = generate_insights(report)
ApiGenerate ==
    /\ pc = "api"
    /\ Len(calls) < MaxCalls
    /\ \E o \in {generate_insights(report)} :
           /\ insights' = o.ret
           /\ report' = o.arg
           /\ out' = out \o o.printed
           /\ exc' = o.raised
    /\ calls' = Append(calls, "generate")
    /\ UNCHANGED <<pc, file, data>>

ApiNext ==
    \/ ApiLoad
    \/ ApiAnalyze
    \/ ApiGenerate

ApiSpec == ApiInit /\ [][ApiNext]_vars

(***************************************************************************)
(* analyze_usage_patterns and generate_insights on larger tables           *)
(***************************************************************************)
StatTables == {Table("datetime64", "int64", rows) : rows \in SeqsUpTo(StatRowValues, StatRows)}

StatInit ==
    /\ pc = "api"
    /\ file = NoFile("missing")
    /\ data \in StatTables
    /\ report = None
    /\ insights = None
    /\ out = <<>>
    /\ calls = <<>>
    /\ exc = "none"

StatNext ==
    \/ ApiAnalyze
    \/ ApiGenerate

StatSpec == StatInit /\ [][StatNext]_vars

(***************************************************************************)
(* Properties                                                              *)
(***************************************************************************)
Last(s) == s[Len(s)]

\* the step is a call of the function named f
Called(f) == calls' # calls /\ Last(calls') = f

\* what the file makes pd.read_csv do, read off the file alone
LoadFailure ==
    CASE file.kind = "missing" -> "absent"
      [] file.kind = "malformed" -> "parse"
      [] file.kind = "unreadable" -> "other"
      [] "timestamp" \notin DOMAIN file.content.dtypes -> "other"
      [] OTHER -> "none"

\* C1: whenever load_energy_data fails (file absent, parse failure, any other
\* exception) it prints exactly one message, a different one for each of the
\* three kinds of failure ("Error: File not found at <path>" for an absent
\* file), raises nothing and returns None; main then calls neither
\* analyze_usage_patterns nor generate_insights and prints nothing further.
C1_LoadFailureStopsMain ==
    (pc # "start" /\ LoadFailure # "none") =>
        /\ exc = "none"
        /\ pc \in {"loaded", "done"}
        /\ data = None
        /\ calls = <<"load">>
        /\ Len(out) = 1
        /\ LoadFailure = "absent" =>
              out[1] = <<Lit("Error: File not found at "), Lit("energy_usage_data.csv")>>
        /\ LoadFailure = "parse" =>
              out[1] = <<Lit("Error: Failed to parse CSV. Please check the file format.")>>
        /\ LoadFailure = "other" =>
              /\ Len(out[1]) = 2
              /\ out[1][1] = Lit("Unexpected error: ")

C1_Witness ==
    /\ pc = "done"
    /\ file.kind = "missing"
    /\ out = <<(<<Lit("Error: File not found at "), Lit("energy_usage_data.csv")>>)>>

\* the end-to-end scenario of C4
ScenarioFile ==
    CsvFile(Table("datetext", "int64",
                  <<[timestamp |-> 480, usage |-> 5],
                    [timestamp |-> 480, usage |-> 5],
                    [timestamp |-> 1200, usage |-> 50]>>))

ScenarioMeans == Series(<<8, 20>>, <<[num |-> 5, den |-> 1], [num |-> 50, den |-> 1]>>)

\* C4 as stated: for the rows (08:00, 5), (08:00, 5), (20:00, 50) the hourly
\* means are {8: 5, 20: 50} and the high-usage hours are {20}.
C4_Original ==
    (file = ScenarioFile /\ report.type = "dict") =>
        /\ report.items.average_hourly_usage = ScenarioMeans
        /\ report.items.high_usage_hours = PyList(<<20>>)

\* C4 as amended: for the rows (08:00, 5), (08:00, 5), (20:00, 50) the hourly
\* means are {8: 5, 20: 50} and no hour is a high-usage hour: 50 is not above
\* the mean of the hourly means plus their sample standard deviation.
C4_ScenarioNoHighUsage ==
    (file = ScenarioFile /\ report.type = "dict") =>
        /\ report.items.average_hourly_usage = ScenarioMeans
        /\ report.items.high_usage_hours = PyList(<<>>)

C4_Witness ==
    /\ file = ScenarioFile
    /\ pc = "done"
    /\ report.type = "dict"
    /\ Len(out) = 2

\* the file is one that load_energy_data and analyze_usage_patterns accept
Analyzable ==
    /\ LoadFailure = "none"
    /\ file.content.dtypes.timestamp = "datetext"
    /\ "usage" \in DOMAIN file.content.dtypes
    /\ file.content.dtypes.usage = "int64"

\* the stages run at most once each and in the order Loader, Analyzer,
\* Insight Generator, print, each only after the stage before it succeeded
StagesInOrder ==
    /\ pc # "crashed"
    /\ \E n \in 0..4 : calls = SubSeq(<<"load", "analyze", "generate", "print">>, 1, n)
    /\ Len(calls) >= 2 => data.type = "DataFrame" /\ LoadFailure = "none"
    /\ Len(calls) >= 3 => report.type = "dict" /\ Analyzable

\* the header is printed exactly when Loader and Analyzer succeeded, and it is
\* followed by one "- " line per insight, in order
HeaderAndInsights ==
    pc = "done" =>
        IF Analyzable
        THEN /\ Len(calls) = 4
             /\ \E k \in 1..Len(out) :
                   /\ out[k] = <<Lit("\nActionable Insights:")>>
                   /\ \A j \in 1..(k - 1) : out[j] # <<Lit("\nActionable Insights:")>>
                   /\ Len(out) = k + Len(insights.elems)
                   /\ \A i \in 1..Len(insights.elems) :
                         out[k + i] = <<Lit("- ")>> \o insights.elems[i]
        ELSE \A k \in 1..Len(out) : out[k] # <<Lit("\nActionable Insights:")>>

\* C8: in every run of main the stages execute at most once each and only in
\* the order Loader, Analyzer, Insight Generator, print; the Analyzer runs only
\* after the Loader returned a table, the Insight Generator only after the
\* Analyzer returned a report; the header is printed if and only if Loader and
\* Analyzer succeeded, followed by exactly one "- " line per insight in
\* order; and every run terminates.
C8_LinearPipeline == [](StagesInOrder /\ HeaderAndInsights) /\ <>(pc = "done")

C8_Witness ==
    /\ pc = "done"
    /\ calls = <<"load", "analyze", "generate", "print">>
    /\ Len(insights.elems) >= 1
    /\ Len(out) = 1 + Len(insights.elems)

\* the required columns the table lacks
MissingColumns(d) == {"timestamp", "usage"} \ DOMAIN d.dtypes

MissingColumnMessage(c) ==
    IF c = "timestamp"
    THEN <<Lit("Error: Missing expected data column - "), Lit("'timestamp'")>>
    ELSE <<Lit("Error: Missing expected data column - "), Lit("'Column not found: usage'")>>

\* the call printed the generic analysis message and nothing else
PrintsGenericAnalysisMessage ==
    /\ Len(out') = Len(out) + 1
    /\ SubSeq(out', 1, Len(out)) = out
    /\ Len(Last(out')) = 2
    /\ Last(out')[1] = Lit("Unexpected error during analysis: ")

\* C2 as stated: given a table lacking a required column (timestamp or
\* usage), analyze_usage_patterns prints the missing-column message naming
\* that column, raises nothing and returns None.
C2_Original ==
    [][(Called("analyze") /\ data.type = "DataFrame" /\ MissingColumns(data) # {}) =>
          /\ exc' = "none"
          /\ report' = None
          /\ \E c \in MissingColumns(data) : out' = Append(out, MissingColumnMessage(c))]_vars

\* C2 as amended: given a table lacking the timestamp column, or lacking the
\* usage column while its timestamp column holds datetimes,
\* analyze_usage_patterns prints the missing-column message naming that column
\* (timestamp if both are missing), raises nothing and returns None, never a
\* partial report; any other failure (a timestamp column that holds no
\* datetimes, whether or not usage is present, a usage column that is not
\* numeric, an argument that is no table) prints the generic analysis message
\* and likewise returns None.
C2_MissingColumn ==
    [][Called("analyze") =>
          /\ exc' = "none"
          /\ report'.type \in {"NoneType", "dict"}
          /\ IF data.type # "DataFrame"
             THEN report' = None /\ PrintsGenericAnalysisMessage
             ELSE IF "timestamp" \notin DOMAIN data.dtypes
             THEN report' = None /\ out' = Append(out, MissingColumnMessage("timestamp"))
             ELSE IF data.dtypes.timestamp # "datetime64"
             THEN report' = None /\ PrintsGenericAnalysisMessage
             ELSE IF "usage" \notin DOMAIN data.dtypes
             THEN report' = None /\ out' = Append(out, MissingColumnMessage("usage"))
             ELSE IF data.dtypes.usage # "int64"
             THEN report' = None /\ PrintsGenericAnalysisMessage
             ELSE report'.type = "dict" /\ out' = out]_vars

C2_Witness ==
    /\ calls # <<>>
    /\ Last(calls) = "analyze"
    /\ data.type = "DataFrame"
    /\ MissingColumns(data) = {"usage"}
    /\ Len(data.rows) > 0
    /\ report = None
    /\ Last(out) = MissingColumnMessage("usage")

\* C3: for every table on which analyze_usage_patterns returns a report, every
\* hour in high_usage_hours is a key of average_hourly_usage, an hour 0..23
\* that occurs in the data, and every row of anomalies is a row of the input
\* table (same label, timestamp and usage), none of them twice.
C3_ReportWithinInput ==
    [][(Called("analyze") /\ report'.type = "dict") =>
          LET r == report'.items
              keys == {r.average_hourly_usage.index[j] : j \in 1..Len(r.average_hourly_usage.index)}
              high == r.high_usage_hours.elems
              a == r.anomalies
          IN  /\ keys \subseteq 0..23
              /\ \A j \in 1..Len(high) :
                    /\ high[j] \in keys
                    /\ \E i \in 1..Len(data.rows) : (data.rows[i].timestamp \div 60) % 24 = high[j]
              /\ Len(a.index) = Len(a.rows)
              /\ \A j \in 1..Len(a.rows) :
                    \E i \in 1..Len(data.rows) :
                        /\ a.index[j] = data.index[i]
                        /\ a.rows[j].timestamp = data.rows[i].timestamp
                        /\ a.rows[j].usage = data.rows[i].usage
              /\ \A j, k \in 1..Len(a.rows) : a.index[j] = a.index[k] => j = k]_vars

C3_Witness ==
    /\ report.type = "dict"
    /\ Len(report.items.high_usage_hours.elems) > 0
    /\ Len(report.items.anomalies.rows) > 0

\* C5: for every table of at least one record, a single record included, in
\* which all usage values are identical, the report's anomalies are empty.
C5_IdenticalUsageNoAnomaly ==
    ( /\ report.type = "dict"
      /\ Len(data.rows) >= 1
      /\ \A i, j \in 1..Len(data.rows) : data.rows[i].usage = data.rows[j].usage )
    => Len(report.items.anomalies.rows) = 0

C5_Witness ==
    /\ report.type = "dict"
    /\ Len(data.rows) = 1
    /\ Len(report.items.anomalies.rows) = 0

\* C10: for every table of at most 5 records, whatever the usage values, the
\* report's anomalies are empty.
C10_FewRecordsNoAnomaly ==
    (report.type = "dict" /\ Len(data.rows) <= 5) => Len(report.items.anomalies.rows) = 0

C10_Witness ==
    /\ report.type = "dict"
    /\ Len(data.rows) = 5
    /\ \E i, j \in 1..5 : data.rows[i].usage = 5 /\ data.rows[j].usage = 50
    /\ Len(report.items.anomalies.rows) = 0

\* the report has the key high_usage_hours and a table of anomalies
WellFormed(r) ==
    /\ r.type = "dict"
    /\ {"high_usage_hours", "anomalies"} \subseteq DOMAIN r.items
    /\ r.items.anomalies.type = "DataFrame"

\* C6: for every report that has the key high_usage_hours and a table of
\* anomalies, generate_insights returns the high-usage recommendation naming
\* report['high_usage_hours'] (also when that list is empty), followed by the
\* fixed anomaly warning if and only if the anomalies are not empty, and
\* nothing else.
C6_InsightSequence ==
    [][(Called("generate") /\ WellFormed(report)) =>
          LET recommendation ==
                  <<Lit("Consider adjusting activities or appliances usage during these high usage hours: ")>>
                      \o Str(report.items.high_usage_hours)
              warning ==
                  <<Lit("There are anomalies in energy usage that might need investigation, such as potential faulty appliances.")>>
          IN  /\ insights'.type = "list"
              /\ Len(insights'.elems) \in {1, 2}
              /\ insights'.elems[1] = recommendation
              /\ Len(insights'.elems) = 2 <=> Len(report.items.anomalies.rows) > 0
              /\ Len(insights'.elems) = 2 => insights'.elems[2] = warning
              /\ out' = out]_vars

C6_Witness ==
    /\ calls # <<>>
    /\ Last(calls) = "generate"
    /\ WellFormed(report)
    /\ report.items.high_usage_hours = PyList(<<>>)
    /\ Len(report.items.anomalies.rows) > 0
    /\ Len(insights.elems) = 2

\* C7: generate_insights never raises: if a step fails (the report has no
\* anomalies key, the report is no dictionary, the anomalies are no table) it
\* prints one error message and returns the empty list, dropping the insight
\* it had appended.
C7_GenerateNeverRaises ==
    [][Called("generate") =>
          /\ exc' = "none"
          /\ insights'.type = "list"
          /\ IF \/ report.type # "dict"
                \/ "anomalies" \notin DOMAIN report.items
                \/ report.items.anomalies.type # "DataFrame"
             THEN /\ insights'.elems = <<>>
                  /\ Len(out') = Len(out) + 1
                  /\ SubSeq(out', 1, Len(out)) = out
                  /\ Last(out')[1] = Lit("Error in generating insights: ")
             ELSE out' = out]_vars

C7_Witness ==
    /\ calls # <<>>
    /\ Last(calls) = "generate"
    /\ report = PyDict([high_usage_hours |-> PyList(<<20>>)])
    /\ insights = PyList(<<>>)
    /\ Len(out) > 0
    /\ Last(out)[1] = Lit("Error in generating insights: ")

\* the tables d and e hold the same records: the same labels in the same
\* order, and the same value in every column but hour
SameRecords(d, e) ==
    /\ e.type = d.type
    /\ d.type = "DataFrame" =>
          /\ e.index = d.index
          /\ Len(e.rows) = Len(d.rows)
          /\ DOMAIN e.dtypes \ {"hour"} = DOMAIN d.dtypes \ {"hour"}
          /\ \A c \in DOMAIN d.dtypes \ {"hour"} :
                /\ e.dtypes[c] = d.dtypes[c]
                /\ \A i \in 1..Len(d.rows) : e.rows[i][c] = d.rows[i][c]

\* C9: across any sequence of calls the only mutation is
\* analyze_usage_patterns setting the table's hour column: the number and order
\* of the records and every timestamp and usage are unchanged by analysis, on
\* success and on every failure, and generate_insights and load_energy_data
\* leave their argument unchanged.
C9_OnlyHourColumnChanges ==
    [][/\ file' = file
       /\ Called("load") => report' = report /\ insights' = insights
       /\ Called("analyze") => SameRecords(data, data') /\ insights' = insights
       /\ Called("generate") => report' = report /\ data' = data]_vars

C9_Witness ==
    /\ Len(calls) = 2
    /\ calls[1] = "analyze"
    /\ data.type = "DataFrame"
    /\ "hour" \in DOMAIN data.dtypes
    /\ Len(data.rows) = 2
    /\ report = None

====
